---- MODULE Spec2Model ----
(***************************************************************************)
(* Model of scripts/thinker_http.py: the Generate -> Process -> Judge      *)
(* reasoning pipeline (thinking_loop) and the pure text helpers it uses.   *)
(*                                                                         *)
(* Texts are sequences of one-character strings.  The section labels the   *)
(* regular expressions look for are single tokens: "THOUGHT:" stands for   *)
(* any reasoning label of CAND_RE followed by its colon, "ANSWER:" for any *)
(* conclusion label followed by its colon, "Best:" and "RULE:" for the     *)
(* literal words of the judge's verdict.                                   *)
(***************************************************************************)
EXTENDS Integers, Sequences, FiniteSets, TLC

\* ---------------------------------------------------------------- bounds
\* N_CANDIDATES is drawn from 0..MaxCandidates.
MaxCandidates == 2
\* The exhaustive parser inputs are all token sequences up to this length.
MaxTextLen == 4
\* The exhaustive verdicts are all token sequences up to this length.
MaxVerdictLen == 4
\* The pools are exercised with up to this many tasks.
MaxPoolTasks == 4
\* The verdicts of the rule extraction have up to this many lines.
MaxVerdictLines == 3

\* ------------------------------------------------------- text primitives
SetMin(S) == CHOOSE x \in S : \A y \in S : x <= y
SetMax(S) == CHOOSE x \in S : \A y \in S : y <= x

\* The whitespace class \s of the regular expressions and of str.strip().
IsSpace(c) == c \in {" ", "\n"}

LowerCase == <<"a", "b", "c", "d", "e", "f", "g", "h", "i", "j", "k", "l", "m",
               "n", "o", "p", "q", "r", "s", "t", "u", "v", "w", "x", "y", "z">>
UpperCase == <<"A", "B", "C", "D", "E", "F", "G", "H", "I", "J", "K", "L", "M",
               "N", "O", "P", "Q", "R", "S", "T", "U", "V", "W", "X", "Y", "Z">>
Digits == {"0", "1", "2", "3", "4", "5", "6", "7", "8", "9"}

LowerLetters == {LowerCase[i] : i \in 1..26}
UpperLetters == {UpperCase[i] : i \in 1..26}

IsLower(c) == c \in LowerLetters
IsUpper(c) == c \in UpperLetters

\* str.upper() on one character.
ToUpper(c) == IF IsLower(c) THEN UpperCase[CHOOSE i \in 1..26 : LowerCase[i] = c]
              ELSE c

\* str.upper() on a text.
Upper(s) == [i \in 1..Len(s) |-> ToUpper(s[i])]

\* str.strip(): leading and trailing whitespace removed.
Strip(s) ==
    LET idx == {i \in 1..Len(s) : ~IsSpace(s[i])}
    IN  IF idx = {} THEN <<>> ELSE SubSeq(s, SetMin(idx), SetMax(idx))

\* The greedy \s* in front of a capture group: leading whitespace removed.
LStrip(s) ==
    LET idx == {i \in 1..Len(s) : ~IsSpace(s[i])}
    IN  IF idx = {} THEN <<>> ELSE SubSeq(s, SetMin(idx), Len(s))

\* str.startswith(prefix).
StartsWith(s, prefix) ==
    /\ Len(s) >= Len(prefix)
    /\ SubSeq(s, 1, Len(prefix)) = prefix

\* re.sub(r'\s+', ' ', s): every run of whitespace becomes one space.
RECURSIVE CollapseSpaces(_)
CollapseSpaces(s) ==
    IF s = <<>> THEN <<>>
    ELSE IF IsSpace(s[1]) THEN <<" ">> \o CollapseSpaces(LStrip(s))
    ELSE <<s[1]>> \o CollapseSpaces(Tail(s))

\* str.split(sep) for a two-character separator: non-overlapping, left to right.
RECURSIVE SplitOn(_, _)
SplitOn(s, c) ==
    LET idx == {i \in 1..(Len(s) - 1) : s[i] = c /\ s[i + 1] = c}
    IN  IF idx = {} THEN <<s>>
        ELSE <<SubSeq(s, 1, SetMin(idx) - 1)>>
                 \o SplitOn(SubSeq(s, SetMin(idx) + 2, Len(s)), c)

\* str.split(c) for a one-character separator.
RECURSIVE SplitLines(_, _)
SplitLines(s, c) ==
    LET idx == {i \in 1..Len(s) : s[i] = c}
    IN  IF idx = {} THEN <<s>>
        ELSE <<SubSeq(s, 1, SetMin(idx) - 1)>>
                 \o SplitLines(SubSeq(s, SetMin(idx) + 1, Len(s)), c)

\* ------------------------------------------------------ parsing helpers
\* Python's None, and the absent regex match.
None == [absent |-> TRUE]

\* The characters the first re.sub of parse_candidate removes: asterisk and
\* underscore (the backquote, removed alike, is not in the model's alphabet).
Markup == {"*", "_"}

\* CAND_RE.search(text): the leftmost reasoning label that some conclusion
\* label follows; group 1 runs lazily from after the whitespace behind the label to
\* the whitespace in front of the first conclusion label, group 2 from after
\* the whitespace behind that label to the end of the text (re.S).
CAND_RE_search(text) ==
    LET ts == {i \in 1..Len(text) : text[i] = "THOUGHT:"}
    IN  IF ts = {} THEN None
        ELSE LET p  == SetMin(ts)
                 as == {j \in (p + 1)..Len(text) : text[j] = "ANSWER:"}
             IN  IF as = {} THEN None
                 ELSE LET a == SetMin(as)
                      IN  [g1 |-> Strip(SubSeq(text, p + 1, a - 1)),
                           g2 |-> LStrip(SubSeq(text, a + 1, Len(text)))]

\* The candidate record parse_candidate builds from a match.
MakeCandidate(thought, answer) ==
    [thought |-> thought,
     answer  |-> answer,
     raw     |-> <<"THOUGHT:", "\n">> \o thought
                   \o <<"\n", "\n", "ANSWER:", "\n">> \o answer]

\* parse_candidate(text): a candidate record, or None.
parse_candidate(txt) ==
    LET text == SelectSeq(Strip(txt), LAMBDA c : c \notin Markup)
        m1 == CAND_RE_search(text)
        parts == SplitOn(text, "\n")
        combined(i) == <<"THOUGHT:", " ">> \o parts[i]
                          \o <<"\n", "ANSWER:", " ">> \o parts[i + 1]
        hits == {i \in 1..(Len(parts) - 1) : CAND_RE_search(combined(i)) # None}
        m == IF m1 # None THEN m1
             ELSE IF hits = {} THEN None
             ELSE CAND_RE_search(combined(SetMin(hits)))
    IN  IF m = None THEN None
        ELSE MakeCandidate(CollapseSpaces(Strip(m.g1)), CollapseSpaces(Strip(m.g2)))

normalize_critic_keep_case(text) ==
    SelectSeq(text, LAMBDA c : IsLower(c) \/ IsUpper(c) \/ c \in Digits)

\* normalize_critic(text): ASCII letters and digits kept, uppercased.
normalize_critic(text) ==
    Upper(SelectSeq(text, LAMBDA c : IsLower(c) \/ IsUpper(c) \/ c \in Digits))

NOISSUE == <<"N", "O", "I", "S", "S", "U", "E">>

is_consistent_any(response) == TRUE

\* the verdict of check_semantic_consistency on the response text.
is_consistent(response) == StartsWith(Upper(Strip(response)), <<"Y", "E", "S">>)


\* re.search(r"Best:\s*([A-Z])", verdict) sees the first character of a token.
FirstChar(tok) == IF tok = "Best:" THEN "B" ELSE IF tok = "RULE:" THEN "R" ELSE tok

\* The position of the capital letter that follows, after optional whitespace,
\* the "Best:" at position i; 0 when none does.
LetterAfter(verdict, i) ==
    LET rest == {j \in (i + 1)..Len(verdict) : ~IsSpace(verdict[j])}
    IN  IF rest = {} THEN 0
        ELSE IF IsUpper(FirstChar(verdict[SetMin(rest)])) THEN SetMin(rest) ELSE 0

\* best_match of judge: the leftmost match of Best:\s*([A-Z]), as the position
\* of its letter; 0 when the verdict holds no match.
best_match(verdict) ==
    LET hits == {i \in 1..Len(verdict) :
                    verdict[i] = "Best:" /\ LetterAfter(verdict, i) # 0}
    IN  IF hits = {} THEN 0 ELSE LetterAfter(verdict, SetMin(hits))

\* ord(best_letter) - ord('A').
LetterIndex(c) == (CHOOSE i \in 1..26 : UpperCase[i] = c) - 1

extract_rules_anywhere(verdict) ==
    LET lines == SplitLines(verdict, "\n")
        at(l) == {k \in 1..Len(l) : l[k] = "RULE:"}
        isRule(l) == at(l) # {}
        body(l) == Strip(SubSeq(l, SetMin(at(l)) + 1, Len(l)))
        picked == SelectSeq(lines, isRule)
    IN  [k \in 1..Len(picked) |-> body(picked[k])]

\* The rules loop of judge: every line that starts with RULE:, prefix cut, stripped.
extract_rules(verdict) ==
    LET lines == SplitLines(verdict, "\n")
        isRule(l) == l # <<>> /\ l[1] = "RULE:"
        body(l) == Strip(Tail(l))
        picked == SelectSeq(lines, isRule)
    IN  [k \in 1..Len(picked) |-> body(picked[k])]

index_valid_no_upper(best_idx, n) == ~(best_idx < 0)

\* The index check of judge: the index is used only when it names a candidate.
index_valid(best_idx, n) == ~(best_idx < 0 \/ best_idx >= n)

\* What judge returns for a verdict text and n candidates.
judge_result(verdict, n) ==
    LET m == best_match(verdict)
    IN  IF m = 0 THEN [best_idx |-> 0, rules |-> <<>>]
        ELSE LET best_idx == LetterIndex(FirstChar(verdict[m]))
             IN  IF ~index_valid(best_idx, n) THEN [best_idx |-> 0, rules |-> <<>>]
                 ELSE [best_idx |-> best_idx, rules |-> extract_rules(verdict)]

\* ------------------------------------------------------------ the state
VARIABLES
    N_CANDIDATES,       \* configuration, read once at start
    MAX_REFINE_ROUNDS,
    MAX_WORKERS,
    pc,                 \* where thinking_loop stands
    gpc,                \* generate_one(i): "queued", "chat", "check" or "done"
    gtxt,               \* generate_one(i): the outcome of its generation request
    gcand,              \* generate_one(i): its local cand
    gexpl,              \* generate_one(i): the outcome of its consistency request
    gres,               \* generate_one(i): the result of its future
    gorder,             \* generation tasks in the order they completed (once
                        \* generate_candidates returned: those it kept)
    cands,              \* what generate_candidates returned
    src,                \* for each entry of cands, the task it came from
    ppc,                \* process_one(i): "queued", "critique", "refine" or "done"
    crit,               \* process_one(i): the critique text it received
    refined_txt,        \* refine, for task i: the outcome of its request
    refined,            \* process_one(i): what refine returned
    pres,               \* process_one(i): the result of its future
    porder,             \* process tasks in the order they completed
    processed,          \* what process_candidates returned
    cand_txt,           \* thinking_loop: the text of the fallback call
    verdict,            \* judge: the verdict text
    best_idx,           \* thinking_loop: the index judge returned
    best,               \* the returned candidate
    rules,              \* the returned rules
    calls               \* chat requests issued so far, by purpose and task

vars == <<N_CANDIDATES, MAX_REFINE_ROUNDS, MAX_WORKERS, pc, gpc, gtxt, gcand,
          gexpl, gres, gorder, cands, src, ppc, crit, refined_txt, refined, pres,
          porder, processed, cand_txt, verdict, best_idx, best, rules, calls>>

config == <<N_CANDIDATES, MAX_REFINE_ROUNDS, MAX_WORKERS>>
genVars == <<gpc, gtxt, gcand, gexpl, gres, gorder>>
procVars == <<ppc, crit, refined_txt, refined, pres, porder>>
outVars == <<cand_txt, verdict, best_idx, best, rules>>

\* max_workers=min(3, MAX_WORKERS): the 3 of both pools.
POOL_CAP == 3

\* The values the environment may give MAX_REFINE_ROUNDS and MAX_WORKERS.
RefineRoundsValues == {-1, 0, 1, 2}
WorkersValues == {0, 1, 2, 4}

\* ------------------------------------------------- the remote completions
\* chat() either returns a text or raises (network failure, timeout, bad
\* status, malformed body; a null content fails every caller the same way).
Outcomes(T) == {[ok |-> FALSE, text |-> <<>>]} \cup {[ok |-> TRUE, text |-> t] : t \in T}

\* Completions of the generation, refinement and fallback calls.
GenTexts ==
    { <<"*", "THOUGHT:", "*", " ", "x", "\n", "\n", "ANSWER:", " ", "y">>,
      <<"THOUGHT:", "\n", "\n", "ANSWER:">>,       \* the labels and nothing else
      <<"x", " ", "y">> }                          \* no template

\* Completions of the consistency call.
ConsTexts == { <<"Y", "E", "S">>, <<" ", "y", "e", "s", ".">>, <<"N", "O">> }

\* Completions of the critique call.
CritTexts ==
    { <<"N", "O", " ", "I", "S", "S", "U", "E">>,
      <<"N", "o", "-", "I", "s", "s", "u", "e", "!", "!">>,
      <<"s", "t", "e", "p", " ", "2">> }

\* Completions of the judge call.
Verdicts ==
    { <<"Best:", " ", "A", "\n", "RULE:", " ", "x">>,
      <<"Best:", " ", "B", "\n", "RULE:", " ", "x", "\n", "RULE:", " ", "x">>,
      <<"Best:", "C", "\n", "RULE:", "x">>,
      <<"B", "\n", "RULE:", " ", "x">>,
      <<"Best:", " ", "A", "\n", "-", " ", "RULE:", " ", "x">> }

\* All texts over an alphabet, up to a length.
RECURSIVE TextsUpTo(_, _)
TextsUpTo(alphabet, n) ==
    IF n = 0 THEN {<<>>}
    ELSE LET shorter == TextsUpTo(alphabet, n - 1)
         IN  shorter \cup {Append(t, c) : t \in shorter, c \in alphabet}

ParseAlphabet == {"THOUGHT:", "ANSWER:", "x", " ", "\n", "*"}
VerdictAlphabet == {"Best:", "RULE:", "A", "B", "x", " ", "\n"}
AllTexts == TextsUpTo(ParseAlphabet, MaxTextLen)
AllVerdicts == TextsUpTo(VerdictAlphabet, MaxVerdictLen)

\* The literal candidate thinking_loop returns when the fallback fails too.
SyntheticCandidate ==
    MakeCandidate(<<"Error: No valid candidates generated.">>,
                  <<"Please try again with a different prompt.">>)

\* ------------------------------------------------------------- helpers
Tasks == 1..N_CANDIDATES

NoCalls ==
    [gen |-> [i \in Tasks |-> 0], cons |-> [i \in Tasks |-> 0],
     crit |-> [i \in Tasks |-> 0], ref |-> [i \in Tasks |-> 0],
     fallback |-> 0, judge |-> 0]

pool_size_uncapped == MAX_WORKERS

\* max_workers of both ThreadPoolExecutors.
pool_size == IF MAX_WORKERS < POOL_CAP THEN MAX_WORKERS ELSE POOL_CAP

\* Tasks a worker thread is executing.
Running(taskpc) == {i \in DOMAIN taskpc : taskpc[i] \notin {"queued", "done"}}

CanStart_again(taskpc, i) ==
    /\ i \in DOMAIN taskpc
    /\ taskpc[i] \in {"queued", "done"}
    /\ Cardinality(Running(taskpc)) < pool_size

\* A worker takes the oldest queued task when a worker is free.
CanStart(taskpc, i) ==
    /\ i \in DOMAIN taskpc
    /\ taskpc[i] = "queued"
    /\ \A j \in DOMAIN taskpc : j < i => taskpc[j] # "queued"
    /\ Cardinality(Running(taskpc)) < pool_size

AllDone_not_waiting(taskpc) == TRUE

AllDone_without_failure(taskpc) ==
    /\ \A i \in DOMAIN taskpc : taskpc[i] = "done"
    /\ \A i \in DOMAIN gres : gres[i] # None

\* The with-block of a pool ends, and the list of results is complete, only
\* when every submitted task has finished.
AllDone(taskpc) == \A i \in DOMAIN taskpc : taskpc[i] = "done"

\* The increasing sequence of the members of a set of indices.
RECURSIVE Ascending(_)
Ascending(S) == IF S = {} THEN <<>> ELSE <<SetMin(S)>> \o Ascending(S \ {SetMin(S)})

generated_by_completion(res) == SelectSeq(gorder, LAMBDA i : res[i] # None)

\* [f.result() for f in futures if f.result() is not None]: the tasks whose
\* result is kept, in the order their results are read.
generated_order(res) == Ascending({i \in DOMAIN res : res[i] # None})

processed_by_completion(n) == porder

\* [f.result() for f in futures] of process_candidates: the order of reading.
processed_order(n) == [i \in 1..n |-> i]

needs_refine_always(crit_text) == TRUE

\* normalize_critic(crit) != "NOISSUE" and MAX_REFINE_ROUNDS
needs_refine(crit_text) ==
    normalize_critic(crit_text) # NOISSUE /\ MAX_REFINE_ROUNDS # 0

py_index_first(list, i) == list[1]

\* cands[best_idx] in Python: negative indices count from the end, anything
\* outside -n..n-1 raises IndexError (None here).
py_index(list, i) ==
    IF 0 <= i /\ i < Len(list) THEN list[i + 1]
    ELSE IF -Len(list) <= i /\ i < 0 THEN list[Len(list) + i + 1]
    ELSE None

check_result_keep_on_error(r, cand) ==
    IF r.ok /\ ~is_consistent(r.text) THEN None ELSE cand

\* What generate_one returns once its consistency request ended: the candidate
\* when the response says YES, None when it does not or the request raised.
check_result(r, cand) == IF r.ok /\ is_consistent(r.text) THEN cand ELSE None

refine_keeps_original(new_cand, cand) == cand

\* "return new_cand or cand" of refine.
refine_result(new_cand, cand) == IF new_cand # None THEN new_cand ELSE cand

no_candidates_never(list) == FALSE

\* "if not cands" of thinking_loop.
no_candidates(list) == list = <<>>

fallback_best_synthetic(fallback_cand) == SyntheticCandidate

\* What thinking_loop returns as best after the fallback request.
fallback_best(fallback_cand) ==
    IF fallback_cand # None THEN fallback_cand ELSE SyntheticCandidate

\* ---------------------------------------------------------------- Init
Init ==
    /\ N_CANDIDATES \in 0..MaxCandidates
    /\ MAX_REFINE_ROUNDS \in RefineRoundsValues
    /\ MAX_WORKERS \in WorkersValues
    /\ pc = "start"
    /\ gpc = <<>> /\ gtxt = <<>> /\ gcand = <<>> /\ gexpl = <<>> /\ gres = <<>>
    /\ gorder = <<>>
    /\ cands = <<>> /\ src = <<>>
    /\ ppc = <<>> /\ crit = <<>> /\ refined_txt = <<>> /\ refined = <<>>
    /\ pres = <<>> /\ porder = <<>>
    /\ processed = <<>>
    /\ cand_txt = None /\ verdict = None /\ best_idx = 0
    /\ best = None /\ rules = <<>>
    /\ calls = NoCalls

\* ------------------------------------------------------------ Generate
\* thinking_loop calls generate_candidates: the pool is created (ValueError
\* when max_workers <= 0) and every task is submitted.
StartGenerate ==
    /\ pc = "start"
    /\ IF pool_size <= 0
       THEN /\ pc' = "raised"
            /\ UNCHANGED genVars
       ELSE /\ pc' = "generate"
            /\ gpc' = [i \in Tasks |-> "queued"]
            /\ gtxt' = [i \in Tasks |-> None]
            /\ gcand' = [i \in Tasks |-> None]
            /\ gexpl' = [i \in Tasks |-> None]
            /\ gres' = [i \in Tasks |-> None]
            /\ gorder' = <<>>
    /\ UNCHANGED <<config, cands, src, procVars, processed, outVars, calls>>

\* A worker starts generate_one(i) and issues its generation request.
GenStart(i) ==
    /\ pc = "generate"
    /\ CanStart(gpc, i)
    /\ gpc' = [gpc EXCEPT ![i] = "chat"]
    /\ calls' = [calls EXCEPT !.gen[i] = @ + 1]
    /\ UNCHANGED <<config, pc, gtxt, gcand, gexpl, gres, gorder, cands, src,
                   procVars, processed, outVars>>

\* The generation request of task i ends: an exception or an unparsable text
\* ends the task with None; a parsed candidate goes on to the consistency
\* request.
GenChatReply(i, T) ==
    /\ pc = "generate"
    /\ i \in DOMAIN gpc /\ gpc[i] = "chat"
    /\ \E r \in Outcomes(T) :
          LET cand == IF r.ok THEN parse_candidate(r.text) ELSE None
          IN  /\ gtxt' = [gtxt EXCEPT ![i] = r]
              /\ IF cand = None
                 THEN /\ gpc' = [gpc EXCEPT ![i] = "done"]
                      /\ gorder' = Append(gorder, i)
                      /\ UNCHANGED <<gcand, gres, calls>>
                 ELSE /\ gpc' = [gpc EXCEPT ![i] = "check"]
                      /\ gcand' = [gcand EXCEPT ![i] = cand]
                      /\ calls' = [calls EXCEPT !.cons[i] = @ + 1]
                      /\ UNCHANGED <<gres, gorder>>
    /\ UNCHANGED <<config, pc, gexpl, cands, src, procVars, processed, outVars>>

\* The consistency request of task i ends: the candidate is the result of the
\* task only when the response starts with YES.
GenCheckReply(i, T) ==
    /\ pc = "generate"
    /\ i \in DOMAIN gpc /\ gpc[i] = "check"
    /\ \E r \in Outcomes(T) :
          /\ gexpl' = [gexpl EXCEPT ![i] = r]
          /\ gres' = [gres EXCEPT ![i] = check_result(r, gcand[i])]
    /\ gpc' = [gpc EXCEPT ![i] = "done"]
    /\ gorder' = Append(gorder, i)
    /\ UNCHANGED <<config, pc, gtxt, gcand, cands, src, procVars, processed,
                   outVars, calls>>

\* Every future has its result: generate_candidates returns and its tasks and
\* their locals are gone.  With no
\* candidate thinking_loop issues the fallback request; otherwise it calls
\* process_candidates, which submits one task per candidate.
GenCollect ==
    /\ pc = "generate"
    /\ AllDone(gpc)
    /\ LET order == generated_order(gres)
           list == [k \in 1..Len(order) |-> gres[order[k]]]
       IN  /\ cands' = list
           /\ src' = order
           /\ gpc' = <<>> /\ gtxt' = <<>> /\ gcand' = <<>> /\ gexpl' = <<>>
           /\ gres' = <<>>
           /\ gorder' = SelectSeq(gorder, LAMBDA i : gres[i] # None)
           /\ IF no_candidates(list)
              THEN /\ pc' = "fallback"
                   /\ calls' = [calls EXCEPT !.fallback = @ + 1]
                   /\ UNCHANGED procVars
              ELSE /\ pc' = "process"
                   /\ ppc' = [i \in 1..Len(list) |-> "queued"]
                   /\ crit' = [i \in 1..Len(list) |-> None]
                   /\ refined_txt' = [i \in 1..Len(list) |-> None]
                   /\ refined' = [i \in 1..Len(list) |-> None]
                   /\ pres' = [i \in 1..Len(list) |-> None]
                   /\ porder' = <<>>
                   /\ UNCHANGED calls
    /\ UNCHANGED <<config, processed, outVars>>

\* The fallback request ends: a parsed candidate is returned with no rules,
\* anything else gives the literal failure candidate.
FallbackReply(T) ==
    /\ pc = "fallback"
    /\ \E r \in Outcomes(T) :
          LET fallback_cand == IF r.ok THEN parse_candidate(r.text) ELSE None
          IN  /\ cand_txt' = r
              /\ best' = fallback_best(fallback_cand)
    /\ rules' = <<>>
    /\ pc' = "done"
    /\ UNCHANGED <<config, genVars, cands, src, procVars, processed, verdict,
                   best_idx, calls>>

\* ------------------------------------------------------------- Process
\* A worker starts process_one(cands[i], i) and issues its critique request.
ProcStart(i) ==
    /\ pc = "process"
    /\ CanStart(ppc, i)
    /\ ppc' = [ppc EXCEPT ![i] = "critique"]
    /\ calls' = [calls EXCEPT !.crit[i] = @ + 1]
    /\ UNCHANGED <<config, pc, genVars, cands, src, crit, refined_txt, refined,
                   pres, porder, processed, outVars>>

\* The critique request of task i ends: an exception keeps the candidate; a
\* critique that reports issues, with refinement enabled, issues the
\* refinement request; otherwise the candidate is kept.
CritReply(i, T) ==
    /\ pc = "process"
    /\ i \in DOMAIN ppc /\ ppc[i] = "critique"
    /\ \E r \in Outcomes(T) :
          /\ crit' = [crit EXCEPT ![i] = r]
          /\ IF r.ok /\ needs_refine(r.text)
             THEN /\ ppc' = [ppc EXCEPT ![i] = "refine"]
                  /\ calls' = [calls EXCEPT !.ref[i] = @ + 1]
                  /\ UNCHANGED <<pres, porder>>
             ELSE /\ ppc' = [ppc EXCEPT ![i] = "done"]
                  /\ pres' = [pres EXCEPT ![i] = cands[i]]
                  /\ porder' = Append(porder, i)
                  /\ UNCHANGED calls
    /\ UNCHANGED <<config, pc, genVars, cands, src, refined_txt, refined,
                   processed, outVars>>

\* The refinement request of task i ends: refine returns the parsed text or,
\* when it does not parse, the candidate it was given; an exception keeps the
\* candidate.
RefReply(i, T) ==
    /\ pc = "process"
    /\ i \in DOMAIN ppc /\ ppc[i] = "refine"
    /\ \E r \in Outcomes(T) :
          LET new_cand == IF r.ok THEN parse_candidate(r.text) ELSE None
              ret == refine_result(new_cand, cands[i])
          IN  /\ refined_txt' = [refined_txt EXCEPT ![i] = r]
              /\ refined' = [refined EXCEPT ![i] = IF r.ok THEN ret ELSE None]
              /\ pres' = [pres EXCEPT ![i] = ret]
    /\ ppc' = [ppc EXCEPT ![i] = "done"]
    /\ porder' = Append(porder, i)
    /\ UNCHANGED <<config, pc, genVars, cands, src, crit, processed, outVars,
                   calls>>

\* Every future has its result: process_candidates returns, its tasks and
\* their locals are gone, and thinking_loop calls judge, which issues the judge
\* request.
ProcCollect ==
    /\ pc = "process"
    /\ AllDone(ppc)
    /\ LET order == processed_order(Len(cands))
       IN  processed' = [k \in 1..Len(order) |-> pres[order[k]]]
    /\ ppc' = <<>> /\ crit' = <<>> /\ refined_txt' = <<>> /\ refined' = <<>>
    /\ pres' = <<>> /\ porder' = <<>>
    /\ pc' = "judge"
    /\ calls' = [calls EXCEPT !.judge = @ + 1]
    /\ UNCHANGED <<config, genVars, cands, src, outVars>>

\* --------------------------------------------------------------- Judge
\* The judge request ends.  An exception of chat is caught nowhere and leaves
\* thinking_loop; a verdict gives (best_idx, rules) and thinking_loop returns
\* (cands[best_idx], rules).
JudgeReply(V) ==
    /\ pc = "judge"
    /\ \E r \in Outcomes(V) :
          /\ verdict' = r
          /\ IF ~r.ok
             THEN /\ pc' = "raised"
                  /\ UNCHANGED <<best_idx, best, rules>>
             ELSE LET j == judge_result(r.text, Len(processed))
                      picked == py_index(processed, j.best_idx)
                  IN  /\ best_idx' = j.best_idx
                      /\ rules' = j.rules
                      /\ best' = picked
                      /\ pc' = IF picked = None THEN "raised" ELSE "done"
    /\ UNCHANGED <<config, genVars, cands, src, procVars, processed, cand_txt,
                   calls>>

\* ------------------------------------------------------- specifications
Next ==
    \/ StartGenerate
    \/ \E i \in 1..(MaxCandidates + 1) : GenStart(i)
    \/ \E i \in 1..(MaxCandidates + 1) : GenChatReply(i, GenTexts)
    \/ \E i \in 1..(MaxCandidates + 1) : GenCheckReply(i, ConsTexts)
    \/ GenCollect
    \/ FallbackReply(GenTexts)
    \/ \E i \in 1..(MaxCandidates + 1) : ProcStart(i)
    \/ \E i \in 1..(MaxCandidates + 1) : CritReply(i, CritTexts)
    \/ \E i \in 1..(MaxCandidates + 1) : RefReply(i, GenTexts)
    \/ ProcCollect
    \/ JudgeReply(Verdicts)

Spec == Init /\ [][Next]_vars

\* The parser on every short text: thinking_loop waits for the fallback
\* completion (no task was configured), and the completion is any text.
InitParse ==
    /\ N_CANDIDATES = 0 /\ MAX_REFINE_ROUNDS = 1 /\ MAX_WORKERS = 4
    /\ pc = "fallback"
    /\ gpc = <<>> /\ gtxt = <<>> /\ gcand = <<>> /\ gexpl = <<>> /\ gres = <<>>
    /\ gorder = <<>>
    /\ cands = <<>> /\ src = <<>>
    /\ ppc = <<>> /\ crit = <<>> /\ refined_txt = <<>> /\ refined = <<>>
    /\ pres = <<>> /\ porder = <<>>
    /\ processed = <<>>
    /\ cand_txt = None /\ verdict = None /\ best_idx = 0
    /\ best = None /\ rules = <<>>
    /\ calls = [NoCalls EXCEPT !.fallback = 1]

NextParse == FallbackReply(AllTexts)

SpecParse == InitParse /\ [][NextParse]_vars

\* The judge on every short verdict: every generation parsed and was found
\* consistent, every critique reported no issue, and thinking_loop waits for
\* the verdict, which is any text.
JudgedCandidate == parse_candidate(<<"THOUGHT:", "x", "ANSWER:", "y">>)

InitJudge ==
    /\ N_CANDIDATES \in 1..MaxCandidates /\ MAX_REFINE_ROUNDS = 1 /\ MAX_WORKERS = 4
    /\ pc = "judge"
    /\ gpc = <<>> /\ gtxt = <<>> /\ gcand = <<>> /\ gexpl = <<>> /\ gres = <<>>
    /\ gorder = [i \in Tasks |-> i]
    /\ cands = [i \in Tasks |-> JudgedCandidate]
    /\ src = [i \in Tasks |-> i]
    /\ ppc = <<>> /\ crit = <<>> /\ refined_txt = <<>> /\ refined = <<>>
    /\ pres = <<>> /\ porder = <<>>
    /\ processed = [i \in Tasks |-> JudgedCandidate]
    /\ cand_txt = None /\ verdict = None /\ best_idx = 0
    /\ best = None /\ rules = <<>>
    /\ calls = [gen |-> [i \in Tasks |-> 1], cons |-> [i \in Tasks |-> 1],
                crit |-> [i \in Tasks |-> 1], ref |-> [i \in Tasks |-> 0],
                fallback |-> 0, judge |-> 1]

NextJudge == JudgeReply(AllVerdicts)

SpecJudge == InitJudge /\ [][NextJudge]_vars

\* The pools on more tasks than workers: the texts of the completions are
\* fixed (a request either fails or returns the one text of its kind), the
\* number of tasks goes up to MaxPoolTasks and the scheduling is free.  A run
\* starts either at the call of thinking_loop with refinement disabled, or,
\* with refinement enabled, where process_candidates has just submitted its
\* tasks for the candidates of a Generate stage in which every task survived.
PoolGenTexts == {<<"THOUGHT:", "x", "ANSWER:", "y">>}
PoolConsTexts == {<<"Y", "E", "S">>}
PoolCritTexts == {<<"s", "t", "e", "p", " ", "2">>}
PoolVerdicts == {<<"Best:", " ", "A">>}

InitPool ==
    /\ gpc = <<>> /\ gtxt = <<>> /\ gcand = <<>> /\ gexpl = <<>> /\ gres = <<>>
    /\ porder = <<>>
    /\ processed = <<>>
    /\ cand_txt = None /\ verdict = None /\ best_idx = 0
    /\ best = None /\ rules = <<>>
    /\ \/ /\ N_CANDIDATES \in 0..MaxPoolTasks
          /\ MAX_REFINE_ROUNDS = 0
          /\ MAX_WORKERS \in WorkersValues
          /\ pc = "start"
          /\ gorder = <<>>
          /\ cands = <<>> /\ src = <<>>
          /\ ppc = <<>> /\ crit = <<>> /\ refined_txt = <<>> /\ refined = <<>>
          /\ pres = <<>>
          /\ calls = NoCalls
       \/ /\ N_CANDIDATES \in 1..MaxPoolTasks
          /\ MAX_REFINE_ROUNDS = 1
          /\ MAX_WORKERS \in {w \in WorkersValues : w >= 1}
          /\ pc = "process"
          /\ gorder = [i \in Tasks |-> i]
          /\ cands = [i \in Tasks |-> JudgedCandidate]
          /\ src = [i \in Tasks |-> i]
          /\ ppc = [i \in Tasks |-> "queued"]
          /\ crit = [i \in Tasks |-> None]
          /\ refined_txt = [i \in Tasks |-> None]
          /\ refined = [i \in Tasks |-> None]
          /\ pres = [i \in Tasks |-> None]
          /\ calls = [gen |-> [i \in Tasks |-> 1], cons |-> [i \in Tasks |-> 1],
                      crit |-> [i \in Tasks |-> 0], ref |-> [i \in Tasks |-> 0],
                      fallback |-> 0, judge |-> 0]

NextPool ==
    \/ StartGenerate
    \/ \E i \in 1..MaxPoolTasks : GenStart(i)
    \/ \E i \in 1..MaxPoolTasks : GenChatReply(i, PoolGenTexts)
    \/ \E i \in 1..MaxPoolTasks : GenCheckReply(i, PoolConsTexts)
    \/ GenCollect
    \/ FallbackReply(PoolGenTexts)
    \/ \E i \in 1..MaxPoolTasks : ProcStart(i)
    \/ \E i \in 1..MaxPoolTasks : CritReply(i, PoolCritTexts)
    \/ \E i \in 1..MaxPoolTasks : RefReply(i, PoolGenTexts)
    \/ ProcCollect
    \/ JudgeReply(PoolVerdicts)

SpecPool == InitPool /\ [][NextPool]_vars

\* The run from the call of thinking_loop, with the fixed completion texts and
\* under the condition that whatever can happen next eventually does: a
\* request that is out eventually returns or fails, a free worker eventually
\* takes the oldest queued task, and a function whose futures all have a result
\* eventually returns.
NextFair ==
    \/ StartGenerate
    \/ \E i \in 1..(MaxCandidates + 1) : GenStart(i)
    \/ \E i \in 1..(MaxCandidates + 1) : GenChatReply(i, PoolGenTexts)
    \/ \E i \in 1..(MaxCandidates + 1) : GenCheckReply(i, PoolConsTexts)
    \/ GenCollect
    \/ FallbackReply(PoolGenTexts)
    \/ \E i \in 1..(MaxCandidates + 1) : ProcStart(i)
    \/ \E i \in 1..(MaxCandidates + 1) : CritReply(i, PoolCritTexts)
    \/ \E i \in 1..(MaxCandidates + 1) : RefReply(i, PoolGenTexts)
    \/ ProcCollect
    \/ JudgeReply(PoolVerdicts)

FairSpec == Init /\ [][NextFair]_vars /\ WF_vars(NextFair)


\* The rule extraction on verdicts of several lines: the lines a verdict is
\* made of name a candidate, state a rule (with and without blanks around it,
\* with an empty text), hold RULE: after other text, or are empty.
VerdictLines ==
    { <<"Best:", " ", "A">>,
      <<"Best:", "B", " ", "RULE:", "x">>,
      <<"RULE:", " ", "x">>,
      <<"RULE:", "x", " ">>,
      <<"RULE:", "y", " ", "x">>,
      <<" ", "RULE:", "x">>,
      <<"RULE:">>,
      <<>> }

\* "\n".join(lines)
RECURSIVE JoinLines(_)
JoinLines(lines) ==
    IF lines = <<>> THEN <<>>
    ELSE IF Len(lines) = 1 THEN lines[1]
    ELSE lines[1] \o <<"\n">> \o JoinLines(Tail(lines))

RuleVerdicts == {JoinLines(ls) : ls \in TextsUpTo(VerdictLines, MaxVerdictLines)}

NextRules == JudgeReply(RuleVerdicts)

SpecRules == InitJudge /\ [][NextRules]_vars


\* ---------------------------------------------------------------- claims
Range(f) == {f[i] : i \in DOMAIN f}
Pos(seq, x) == CHOOSE k \in 1..Len(seq) : seq[k] = x

\* generate_candidates returned: thinking_loop is past the Generate stage.
Generated == pc \in {"fallback", "process", "judge", "done"}

\* A critique text whose letters and digits, case ignored, spell NOISSUE.
NormalizesToNoIssue(text) ==
    LET kept == SelectSeq(text, LAMBDA c : IsLower(c) \/ IsUpper(c) \/ c \in Digits)
    IN  /\ Len(kept) = Len(NOISSUE)
        /\ \A k \in 1..Len(kept) : ToUpper(kept[k]) = NOISSUE[k]

\* A critique outcome that is a text normalizing to NOISSUE.
NoIssueAt(c) == c # None /\ c.ok /\ NormalizesToNoIssue(c.text)

\* C1: whatever the transport does in any call of the run, the judge's call
\* included, thinking_loop (given a pool it can create) never raises: it ends
\* by returning a result.
C1_NeverRaises == pool_size >= 1 => pc # "raised"

\* C2: the candidate thinking_loop returns, and every candidate the parser
\* produced on the way, has a non-empty thought and a non-empty answer.
C2_FieldsNonEmpty ==
    LET nonEmpty(c) == c # None => (c.thought # <<>> /\ c.answer # <<>>)
    IN  /\ pc = "done" => nonEmpty(best)
        /\ \A i \in DOMAIN gcand : nonEmpty(gcand[i])
        /\ \A i \in DOMAIN cands : nonEmpty(cands[i])
        /\ \A i \in DOMAIN refined : nonEmpty(refined[i])
        /\ \A i \in DOMAIN processed : nonEmpty(processed[i])

\* The letters some "Best:" of the verdict is followed by (after optional
\* whitespace), as pairs <<position of Best:, index of the letter>>.
BestLetters(v) ==
    {<<i, LetterIndex(FirstChar(v[j]))>> :
        <<i, j>> \in {p \in (1..Len(v)) \X (1..Len(v)) :
                        /\ p[1] < p[2]
                        /\ v[p[1]] = "Best:"
                        /\ IsUpper(FirstChar(v[p[2]]))
                        /\ \A k \in (p[1] + 1)..(p[2] - 1) : IsSpace(v[k])}}

\* The verdict has no parsable Best: <letter>, or its first one resolves to an
\* index outside 0..n-1.
NoUsableBest(v, n) ==
    \/ BestLetters(v) = {}
    \/ \E p \in BestLetters(v) :
          /\ \A q \in BestLetters(v) : p[1] <= q[1]
          /\ (p[2] < 0 \/ p[2] >= n)

\* C3: for a non-empty candidate list and any verdict text, the index judge
\* returns names a candidate; when the verdict has no parsable Best: <letter>,
\* or the letter resolves outside the list, judge returns exactly (0, []),
\* RULE: lines or not.
C3_JudgeIndex ==
    (verdict # None /\ verdict.ok) =>
        /\ 0 <= best_idx /\ best_idx < Len(processed)
        /\ NoUsableBest(verdict.text, Len(processed)) =>
              (best_idx = 0 /\ rules = <<>>)

\* A verdict with a RULE: line whose letter names no candidate gave (0, []).
C3_Witness ==
    /\ pc = "done" /\ verdict # None /\ verdict.ok
    /\ BestLetters(verdict.text) # {}
    /\ NoUsableBest(verdict.text, Len(processed))
    /\ \E k \in 1..Len(verdict.text) : verdict.text[k] = "RULE:"
    /\ best_idx = 0 /\ rules = <<>> /\ best = processed[1]

\* C4: when Generate yields no candidate, thinking_loop issues exactly one more
\* generation request and nothing else (no consistency, critique, refinement
\* or judge request); a completion that parses is returned with no rules, a
\* failed or unparsable one gives the literal failure candidate with no rules,
\* and no second fallback request is made.
C4_SingleFallback ==
    [][ /\ (pc = "generate" /\ pc' # "generate" /\ cands' = <<>>) =>
              (pc' = "fallback" /\ calls' = [calls EXCEPT !.fallback = 1])
        /\ pc = "fallback" =>
              /\ pc' = "done" /\ calls' = calls /\ rules' = <<>>
              /\ cand_txt' # None
              /\ best' = IF cand_txt'.ok /\ parse_candidate(cand_txt'.text) # None
                         THEN parse_candidate(cand_txt'.text)
                         ELSE SyntheticCandidate
        /\ calls'.fallback <= 1
        /\ calls'.fallback = 1 =>
              /\ calls'.judge = 0
              /\ \A i \in Tasks : calls'.crit[i] = 0 /\ calls'.ref[i] = 0
      ]_vars

\* Every configured generation was dropped, the fallback request failed, and
\* the failure candidate came back.
C4_Witness ==
    /\ pc = "done" /\ N_CANDIDATES >= 1 /\ cands = <<>>
    /\ calls.fallback = 1 /\ cand_txt # None /\ ~cand_txt.ok
    /\ best = SyntheticCandidate /\ rules = <<>>

\* C5: whatever the order and outcome of the critique and refinement tasks,
\* process_candidates returns a list as long as its input whose entry i is
\* input candidate i or the refinement of input candidate i.
C5_ProcessKeepsPositions ==
    [][ (pc = "process" /\ pc' # "process") =>
            /\ cands' = cands
            /\ Len(processed') = Len(cands)
            /\ \A i \in 1..Len(cands) :
                  \/ processed'[i] = cands[i]
                  \/ refined[i] # None /\ processed'[i] = refined[i]
      ]_vars

\* Two candidates were processed: the first was replaced by its refinement, the
\* second kept.
C5_Witness ==
    /\ pc = "judge" /\ Len(cands) = 2 /\ Len(processed) = 2
    /\ processed[1] # cands[1] /\ processed[2] = cands[2]
    /\ calls.ref[1] = 1

\* C6: a candidate whose critique normalizes to NOISSUE gets no refinement
\* request and is returned by Process unchanged, whatever MAX_REFINE_ROUNDS.
C6_NoIssueKeeps ==
    [][ /\ (pc = "process" /\ pc' = "process") =>
              \A i \in DOMAIN crit' :
                  NoIssueAt(crit'[i]) =>
                      (calls'.ref[i] = 0 /\ ppc'[i] = "done" /\ pres'[i] = cands[i])
        /\ (pc = "process" /\ pc' # "process") =>
              \A i \in DOMAIN crit :
                  NoIssueAt(crit[i]) =>
                      (calls'.ref[i] = 0 /\ processed'[i] = cands[i])
      ]_vars

\* With two refinement rounds configured, the critique "No-Issue!!" ended a
\* task with its candidate kept and no refinement request.
C6_Witness ==
    /\ pc = "process" /\ MAX_REFINE_ROUNDS = 2
    /\ \E i \in DOMAIN crit :
          /\ crit[i] # None /\ crit[i].ok
          /\ crit[i].text = <<"N", "o", "-", "I", "s", "s", "u", "e", "!", "!">>
          /\ ppc[i] = "done" /\ pres[i] = cands[i] /\ calls.ref[i] = 0

\* C7: with MAX_REFINE_ROUNDS zero or negative no refinement request is issued
\* and every candidate is kept.
C7_NoRoundsNoRefine ==
    MAX_REFINE_ROUNDS <= 0 =>
        /\ \A i \in Tasks : calls.ref[i] = 0
        /\ pc \in {"judge", "done"} /\ cands # <<>> => processed = cands

\* C8: each candidate entering Process gets at most one critique request and
\* at most one refinement request, whatever MAX_REFINE_ROUNDS, and the
\* refinement request is issued only once its critique returned a text that
\* does not normalize to NOISSUE.
C8_OneRoundAfterCritique ==
    [][ \A i \in Tasks :
          /\ calls'.crit[i] <= 1
          /\ calls'.ref[i] <= 1
          /\ calls'.ref[i] > calls.ref[i] =>
                /\ calls.crit[i] = 1
                /\ crit'[i] # None /\ crit'[i].ok
                /\ ~NormalizesToNoIssue(crit'[i].text)
      ]_vars

\* With two refinement rounds configured, a task finished after one critique
\* and one refinement request.
C8_Witness ==
    /\ pc = "process" /\ MAX_REFINE_ROUNDS = 2
    /\ \E i \in DOMAIN ppc :
          /\ ppc[i] = "done" /\ calls.crit[i] = 1 /\ calls.ref[i] = 1
          /\ refined[i] # None /\ pres[i] = refined[i] /\ pres[i] # cands[i]

\* C9: the list generate_candidates returns holds exactly the candidates of the
\* surviving tasks, ordered by task index, whatever order the tasks completed
\* in.
C9_SubmissionOrder ==
    [][ (pc = "generate" /\ pc' # "generate") =>
            LET surviving == {i \in DOMAIN gres : gres[i] # None}
            IN  /\ Len(cands') = Cardinality(surviving)
                /\ Len(src') = Len(cands')
                /\ Range(src') = surviving
                /\ \A a, b \in 1..Len(src') : a < b => src'[a] < src'[b]
                /\ \A k \in 1..Len(src') : cands'[k] = gres[src'[k]]
      ]_vars

\* Task 2 completed before task 1, both survived with different candidates, and
\* the returned list has task 1 first.
C9_Witness ==
    /\ pc = "process" /\ gorder = <<2, 1>> /\ src = <<1, 2>>
    /\ Len(cands) = 2 /\ cands[1] # cands[2]

\* C10 as stated: generate returns its candidates in order of completion: a
\* surviving task that completes before another precedes it in the list.
C10_CompletionOrder ==
    Generated =>
        \A a, b \in 1..Len(gorder) :
            a < b => Pos(src, gorder[a]) < Pos(src, gorder[b])

\* C10 amended: generate returns its candidates in order of submission, not of
\* completion: a surviving task submitted before another precedes it in the
\* list also when it completed after it.
C10_SubmissionNotCompletion ==
    Generated =>
        /\ Range(src) = Range(gorder)
        /\ \A a, b \in 1..Len(gorder) :
              (a < b /\ gorder[b] < gorder[a]) =>
                  Pos(src, gorder[b]) < Pos(src, gorder[a])

\* The run ended although a later task completed first: the list handed on
\* still starts with the earlier task.
C10_Witness ==
    /\ pc = "done" /\ Len(gorder) >= 2
    /\ gorder[1] > gorder[2] /\ src[1] = gorder[2]

\* Some request of the given kind is issued by the step.
Issues(kind) == \E i \in DOMAIN calls[kind] : calls'[kind][i] > calls[kind][i]

\* C11: the stages are separated by barriers.  A critique or refinement
\* request is issued only in the Process stage, and the Generate stage is left
\* only when every generation task has finished; the judge request is issued
\* only by a step that finds every critique/refinement task finished.
C11_Barriers ==
    [][/\ (Issues("crit") \/ Issues("ref")) => pc = "process"
       /\ (Issues("gen") \/ Issues("cons")) => pc = "generate"
       /\ (pc = "generate" /\ pc' # "generate") =>
              \A i \in DOMAIN gpc : gpc[i] = "done"
       /\ calls'.judge > calls.judge =>
              /\ pc = "process"
              /\ \A i \in DOMAIN ppc : ppc[i] = "done"]_vars

\* Two candidates were generated by overlapping tasks and processed, one of
\* them through a refinement, and the judge request is out.
C11_Witness ==
    /\ pc = "judge" /\ calls.judge = 1
    /\ Len(processed) = 2 /\ MAX_WORKERS >= 2
    /\ \E i \in DOMAIN calls.ref : calls.ref[i] = 1

\* The tasks of a pool a worker thread has taken and not yet finished.
Executing(taskpc) ==
    {i \in DOMAIN taskpc : taskpc[i] \in {"chat", "check", "critique", "refine"}}

\* C12: at every moment the generation tasks executing concurrently, and the
\* critique/refine tasks executing concurrently, are at most
\* min(3, MAX_WORKERS), whatever N_CANDIDATES and MAX_WORKERS are.
C12_PoolCap ==
    LET cap == IF MAX_WORKERS < 3 THEN MAX_WORKERS ELSE 3
    IN  /\ Cardinality(Executing(gpc)) <= cap
        /\ Cardinality(Executing(ppc)) <= cap

\* Four workers are configured and four tasks were submitted: three run, one of
\* them in its refinement, and the fourth waits in the queue.
C12_Witness ==
    /\ MAX_WORKERS = 4 /\ pc = "process" /\ Len(ppc) >= 4
    /\ Cardinality(Executing(ppc)) = 3
    /\ \E i \in DOMAIN ppc : ppc[i] = "refine"
    /\ \E i \in DOMAIN ppc : ppc[i] = "queued"

\* A consistency response that, leading whitespace and case ignored, begins
\* with YES.
BeginsWithYes(text) ==
    \E k \in 1..Len(text) :
        /\ \A j \in 1..(k - 1) : IsSpace(text[j])
        /\ k + 2 <= Len(text)
        /\ ToUpper(text[k]) = "Y" /\ ToUpper(text[k + 1]) = "E"
        /\ ToUpper(text[k + 2]) = "S"

\* The generation request of the task returned a text that parses.
ParsedAt(txt, i) == txt[i] # None /\ txt[i].ok /\ parse_candidate(txt[i].text) # None

\* The task parsed its text and its consistency request returned a YES.
ConsistentAt(txt, expl, i) ==
    /\ ParsedAt(txt, i)
    /\ expl[i] # None /\ expl[i].ok /\ BeginsWithYes(expl[i].text)

\* C13: in Generate a task whose generation request fails, whose text does not
\* parse, whose consistency request fails or whose consistency response does
\* not begin with YES ends with no candidate and raises nothing; a step of one
\* task changes nothing of its siblings; and the list generate_candidates
\* returns holds exactly the candidates of the tasks that parsed and were
\* found consistent.
C13_GenerateIsolation ==
    [][ pc = "generate" =>
          /\ pc' \in {"generate", "process", "fallback"}
          /\ pc' = "generate" =>
                /\ Cardinality({j \in DOMAIN gpc :
                        \/ gpc'[j] # gpc[j] \/ gtxt'[j] # gtxt[j]
                        \/ gcand'[j] # gcand[j] \/ gexpl'[j] # gexpl[j]
                        \/ gres'[j] # gres[j]}) <= 1
                /\ \A i \in DOMAIN gpc :
                      (gpc[i] # "done" /\ gpc'[i] = "done") =>
                          gres'[i] = IF ConsistentAt(gtxt', gexpl', i)
                                     THEN parse_candidate(gtxt'[i].text)
                                     ELSE None
          /\ pc' # "generate" =>
                LET good == {i \in DOMAIN gpc : ConsistentAt(gtxt, gexpl, i)}
                IN  /\ Len(cands') = Cardinality(good)
                    /\ Range(src') = good
                    /\ \A k \in 1..Len(cands') :
                          cands'[k] = parse_candidate(gtxt[src'[k]].text)
      ]_vars

\* Both tasks have ended: the consistency request of the first failed and left
\* no candidate, the second task has its candidate all the same.
C13_Witness ==
    /\ pc = "generate" /\ Len(gpc) = 2
    /\ gpc[1] = "done" /\ gpc[2] = "done"
    /\ gexpl[1] # None /\ ~gexpl[1].ok /\ gres[1] = None
    /\ gres[2] # None

\* The refinement request of the task returned a text that parses.
RefinementParsedAt(txt, i) ==
    txt[i] # None /\ txt[i].ok /\ parse_candidate(txt[i].text) # None

\* C14: in Process a critique request that fails, a refinement request that
\* fails, or a refinement text that does not parse leaves the input candidate
\* at that position and nothing is raised; a refinement text that parses puts
\* the newly parsed candidate at that position, and the input candidates are
\* themselves not changed.
C14_ProcessFailSoft ==
    [][ pc = "process" =>
          /\ pc' \in {"process", "judge"}
          /\ cands' = cands
          /\ pc' = "process" =>
                \A i \in DOMAIN ppc :
                    (ppc[i] # "done" /\ ppc'[i] = "done") =>
                        /\ ~crit'[i].ok => pres'[i] = cands[i]
                        /\ pres'[i] = IF RefinementParsedAt(refined_txt', i)
                                      THEN parse_candidate(refined_txt'[i].text)
                                      ELSE cands[i]
          /\ pc' = "judge" =>
                /\ Len(processed') = Len(cands)
                /\ \A i \in DOMAIN cands :
                      processed'[i] = IF RefinementParsedAt(refined_txt, i)
                                      THEN parse_candidate(refined_txt[i].text)
                                      ELSE cands[i]
      ]_vars

\* Both tasks have ended: the refinement of the first parsed and replaced a
\* different candidate, the refinement request of the second failed and its
\* candidate was kept.
C14_Witness ==
    /\ pc = "process" /\ Len(ppc) = 2
    /\ ppc[1] = "done" /\ ppc[2] = "done"
    /\ RefinementParsedAt(refined_txt, 1) /\ pres[1] # cands[1]
    /\ refined_txt[2] # None /\ ~refined_txt[2].ok /\ pres[2] = cands[2]

\* C15: every candidate of the list handed to judge comes out of a successful
\* parse: it is a candidate of the Generate stage, parsed from the text of its
\* task and found consistent by a consistency response that was received and
\* begins with YES, or it is parsed from the refinement text of its position.
\* No other way leads to the judge, and the list is not changed while the
\* judge request is out.
C15_JudgedWereParsed ==
    [][ /\ (pc = "generate" /\ pc' = "process") =>
              \A k \in DOMAIN cands' :
                  /\ src'[k] \in DOMAIN gtxt
                  /\ ParsedAt(gtxt, src'[k])
                  /\ cands'[k] = parse_candidate(gtxt[src'[k]].text)
                  /\ gexpl[src'[k]] # None /\ gexpl[src'[k]].ok
                  /\ BeginsWithYes(gexpl[src'[k]].text)
        /\ pc' = "process" => pc \in {"generate", "process"}
        /\ pc' = "judge" => pc \in {"process", "judge"}
        /\ (pc = "process" /\ pc' = "judge") =>
              /\ processed' # <<>>
              /\ \A i \in DOMAIN processed' :
                    \/ processed'[i] = cands[i]
                    \/ /\ RefinementParsedAt(refined_txt, i)
                       /\ processed'[i] = parse_candidate(refined_txt[i].text)
        /\ pc = "process" => cands' = cands
        /\ pc = "judge" => processed' = processed
      ]_vars

\* The judge request is out for two candidates that both passed their
\* consistency request: the first is the parse of its refinement text, the
\* second comes as generated.
C15_Witness ==
    /\ pc = "judge" /\ Len(processed) = 2
    /\ \A i \in DOMAIN calls.cons : calls.cons[i] = 1
    /\ processed[1] # cands[1] /\ processed[2] = cands[2]

\* thinking_loop returned what the judge picked: element best_idx of the list
\* that was handed to the judge.
BestIsJudged ==
    /\ calls.judge = 1 /\ cands # <<>>
    /\ 0 <= best_idx /\ best_idx < Len(processed)
    /\ best = processed[best_idx + 1]

\* C16 as stated: the best of every returned result is the element best_idx of
\* the list handed to the judge or, when generate_candidates returned an empty
\* list, the literal failure candidate; and rules is a sequence, never None.
C16_BestJudgedOrSynthetic ==
    /\ rules \in Seq(Seq(STRING))
    /\ pc = "done" =>
          \/ BestIsJudged
          \/ cands = <<>> /\ best = SyntheticCandidate

\* C16 amended: the best of every returned result is the element best_idx of
\* the list handed to the judge or, when generate_candidates returned an empty
\* list, the candidate parsed from the text of the one fallback request, or the
\* literal failure candidate when that request failed or its text did not
\* parse; and rules is a sequence, never None.
C16_BestJudgedOrFallback ==
    /\ rules \in Seq(Seq(STRING))
    /\ pc = "done" =>
          \/ BestIsJudged
          \/ /\ cands = <<>> /\ calls.fallback = 1 /\ calls.judge = 0
             /\ cand_txt # None
             /\ \/ /\ cand_txt.ok /\ parse_candidate(cand_txt.text) # None
                   /\ best = parse_candidate(cand_txt.text)
                \/ /\ ~(cand_txt.ok /\ parse_candidate(cand_txt.text) # None)
                   /\ best = SyntheticCandidate

\* Both generation tasks were dropped and the fallback text parsed: the result
\* is the parsed candidate, which is not the literal failure candidate and was
\* never handed to a judge.
C16_Witness ==
    /\ pc = "done" /\ N_CANDIDATES = 2 /\ cands = <<>> /\ calls.judge = 0
    /\ cand_txt # None /\ cand_txt.ok
    /\ best = parse_candidate(cand_txt.text) /\ best # SyntheticCandidate

\* The positions of a verdict at which a line begins with RULE:.
RuleStarts(v) == {p \in 1..Len(v) : v[p] = "RULE:" /\ (p = 1 \/ v[p - 1] = "\n")}

\* The text of the rule whose RULE: is at position p: what follows on the same
\* line, from its first to its last character that is not whitespace.
RuleText(v, p) ==
    LET ends == {q \in (p + 1)..Len(v) : v[q] = "\n"}
        last == IF ends = {} THEN Len(v) ELSE SetMin(ends) - 1
        solid == {q \in (p + 1)..last : ~IsSpace(v[q])}
    IN  IF solid = {} THEN <<>> ELSE SubSeq(v, SetMin(solid), SetMax(solid))

\* C17: when the verdict names a valid letter, the rules judge returns are
\* exactly the lines of the verdict that begin with RULE:, each without the
\* prefix and trimmed, in the order of the verdict and with duplicates kept;
\* a line that does not begin with RULE: gives no rule.
C17_RulesAreRuleLines ==
    (pc = "done" /\ verdict # None /\ verdict.ok
        /\ ~NoUsableBest(verdict.text, Len(processed))) =>
        LET v == verdict.text
            starts == Ascending(RuleStarts(v))
        IN  /\ Len(rules) = Len(starts)
            /\ \A k \in 1..Len(starts) : rules[k] = RuleText(v, starts[k])

\* The verdict names candidate B on a line that holds RULE: after it, and
\* states the same rule on two lines of its own: the rules are that rule, twice.
C17_Witness ==
    /\ pc = "done" /\ verdict # None /\ verdict.ok
    /\ Len(verdict.text) > 5 /\ verdict.text[1] = "Best:" /\ verdict.text[4] = "RULE:"
    /\ best_idx = 1
    /\ rules = << <<"x">>, <<"x">> >>

\* C18: provided every request eventually returns or fails, the Generate stage
\* eventually finishes whichever of its tasks fail, so does the Process stage,
\* and the run eventually ends.
C18_StagesFinish ==
    /\ (pc = "generate") ~> (pc \in {"process", "fallback"})
    /\ (pc = "process") ~> (pc = "judge")
    /\ <>(pc \in {"done", "raised"})

\* A run of two generation tasks ended with a result although one of the tasks
\* was dropped and the other went through critique and refinement requests.
C18_Witness ==
    /\ pc = "done" /\ N_CANDIDATES = 2 /\ Len(cands) = 1
    /\ calls.judge = 1 /\ calls.ref[1] = 1

\* generate_candidates returned an empty list: thinking_loop is in its fallback
\* branch or has returned from it.
Degraded == pc \in {"fallback", "done"} /\ cands = <<>> /\ calls.fallback >= 1

\* C19: the judge request is issued at most once in a run, and only for a list
\* that is not empty and as long as the list generate_candidates returned; and
\* from the moment generate_candidates has returned an empty list no
\* consistency, critique, refinement or judge request is issued (consistency
\* requests issued by the generation tasks before that moment are not meant).
C19_JudgeOnceNeverDegraded ==
    [][ /\ calls'.judge <= 1
        /\ calls'.judge > calls.judge =>
              /\ processed' # <<>>
              /\ Len(processed') = Len(cands) /\ cands' = cands
        /\ (pc = "generate" /\ pc' # "generate" /\ cands' = <<>>) => Degraded'
        /\ Degraded =>
              /\ calls.judge = 0 /\ calls'.judge = 0
              /\ calls'.cons = calls.cons
              /\ \A i \in Tasks : /\ calls.crit[i] = 0 /\ calls'.crit[i] = 0
                                  /\ calls.ref[i] = 0 /\ calls'.ref[i] = 0
              /\ pc' \in {"fallback", "done"}
      ]_vars

\* A run took the fallback branch after both generation tasks were dropped, one
\* of them by its consistency request, and returned: no judge, critique or
\* refinement request was issued.
C19_Witness ==
    /\ pc = "done" /\ N_CANDIDATES = 2 /\ Degraded
    /\ \E i \in Tasks : calls.cons[i] = 1
    /\ calls.judge = 0

\* The sum of the first n values of a counter.
RECURSIVE SumTo(_, _)
SumTo(f, n) == IF n = 0 THEN 0 ELSE f[n] + SumTo(f, n - 1)

\* The requests issued so far by the Generate stage, by the Process stage, and
\* by the whole run.
GenerateCalls == SumTo(calls.gen, N_CANDIDATES) + SumTo(calls.cons, N_CANDIDATES)
ProcessCalls == SumTo(calls.crit, N_CANDIDATES) + SumTo(calls.ref, N_CANDIDATES)
TotalCalls == GenerateCalls + ProcessCalls + calls.fallback + calls.judge

\* C20: the requests of a run are bounded by N_CANDIDATES.  A generation task
\* issues at most one generation request and at most one consistency request,
\* the latter only after its own text parsed: at most 2N in Generate.  Then
\* the run issues either at most one fallback request and nothing else, or at
\* most two requests (critique, refinement) per surviving candidate and, once
\* these are done, exactly one judge request: at most 4N + 1 in all.
C20_CallBounds ==
    /\ \A i \in Tasks :
          /\ calls.gen[i] <= 1 /\ calls.cons[i] <= calls.gen[i]
          /\ (pc = "generate" /\ calls.cons[i] = 1) => ParsedAt(gtxt, i)
          /\ calls.crit[i] <= 1 /\ calls.ref[i] <= calls.crit[i]
          /\ calls.crit[i] = 1 => i <= Len(cands)
    /\ GenerateCalls <= 2 * N_CANDIDATES
    /\ calls.fallback <= 1 /\ calls.judge <= 1
    /\ calls.fallback = 1 => (ProcessCalls = 0 /\ calls.judge = 0 /\ cands = <<>>)
    /\ ProcessCalls <= 2 * Len(cands)
    /\ (pc \in {"judge", "done"} /\ cands # <<>>) => calls.judge = 1
    /\ (pc \in {"fallback", "done"} /\ cands = <<>>) => calls.fallback = 1
    /\ TotalCalls <= 4 * N_CANDIDATES + 1

\* A run of two tasks returned after both candidates were checked, critiqued
\* and refined and the judge was asked: 4N + 1 = 9 requests.
C20_Witness ==
    /\ pc = "done" /\ N_CANDIDATES = 2 /\ Len(cands) = 2
    /\ TotalCalls = 9

====
